---------------------------- MODULE Spec2Model ----------------------------
(* Code resolution of the trade data extractor:                            *)
(*   FuzzySearch.search, FuzzySearch.find_best_match                       *)
(*     (src/src/utils/fuzzy_search.py)                                     *)
(*   TradeDataExtractor._get_code (src/src/extractor.py)                   *)
(*   the --search-country / --search-product calls of search               *)
(*     (src/data_extractor.py)                                             *)
(*                                                                         *)
(* A string is a sequence of characters; a character is a one-token        *)
(* string.  "SUP2" stands for the single character U+00B2 (superscript     *)
(* two), for which str.isdigit() is true and int() raises ValueError.      *)
(* A float score is kept as the exact fraction <<n, d>> in lowest terms:   *)
(* every score is 2*M/T with small integers (one correctly rounded         *)
(* division) or a literal k/10, so two floats are equal, or ordered,       *)
(* exactly when the fractions are.                                         *)
EXTENDS Integers, Sequences, FiniteSets

(***************************************************************************)
(* Bounds of the model                                                     *)
(***************************************************************************)
MaxEntries == 2
MaxQueryLen == 1
MaxResults == 1
MaxScoreLen == 3

(***************************************************************************)
(* Python values                                                           *)
(***************************************************************************)
\* None is the empty tuple, any other optional value x is <<x>>
None == <<>>

Some(x) == <<x>>

Min(x, y) == IF x <= y THEN x ELSE y

Max(x, y) == IF x >= y THEN x ELSE y

RECURSIVE GCD(_, _)
GCD(x, y) == IF y = 0 THEN x ELSE GCD(y, x % y)

\* the float n/d, d > 0, n >= 0
Rat(n, d) == LET g == GCD(n, d) IN <<n \div g, d \div g>>

RatGeq(x, y) == x[1] * y[2] >= y[1] * x[2]

RatGt(x, y) == x[1] * y[2] > y[1] * x[2]

(***************************************************************************)
(* str.lower, str.isdigit, int                                             *)
(***************************************************************************)
UpperToLower ==
  [c \in {"A", "B", "F", "N", "R", "T"} |->
     CASE c = "A" -> "a" [] c = "B" -> "b" [] c = "F" -> "f"
       [] c = "N" -> "n" [] c = "R" -> "r" [] c = "T" -> "t"]

LowerChar(c) == IF c \in DOMAIN UpperToLower THEN UpperToLower[c] ELSE c

\* str.lower()
Lower(s) == [i \in 1..Len(s) |-> LowerChar(s[i])]

DecimalDigits == {"0", "1", "2", "3", "4", "5", "6", "7", "8", "9"}

\* characters of category No/Nd-like for which isdigit() holds but which
\* int() does not accept
OtherDigits == {"SUP2"}

DigitValue ==
  [c \in DecimalDigits |->
     CASE c = "0" -> 0 [] c = "1" -> 1 [] c = "2" -> 2 [] c = "3" -> 3
       [] c = "4" -> 4 [] c = "5" -> 5 [] c = "6" -> 6 [] c = "7" -> 7
       [] c = "8" -> 8 [] c = "9" -> 9]

\* the numeric branch never taken
IsDigitNever(s) == FALSE

\* str.isdigit(): non-empty and every character a digit character
IsDigit(s) == Len(s) > 0 /\ \A i \in 1..Len(s) : s[i] \in DecimalDigits \cup OtherDigits

\* int(s) succeeds on an isdigit() string exactly when all are decimal digits
IntParses(s) == \A i \in 1..Len(s) : s[i] \in DecimalDigits

RECURSIVE IntValue(_)
IntValue(s) ==
  IF Len(s) = 0 THEN 0
  ELSE 10 * IntValue(SubSeq(s, 1, Len(s) - 1)) + DigitValue[s[Len(s)]]

(***************************************************************************)
(* difflib.SequenceMatcher(None, a, b).ratio()                             *)
(* (no junk; the autojunk heuristic only acts when len(b) >= 200)          *)
(* Positions are 1-based, ranges are alo..ahi-1 and blo..bhi-1.            *)
(***************************************************************************)
\* length of the common run of a from i and b from j inside the ranges
RECURSIVE RunLen(_, _, _, _, _, _)
RunLen(a, b, i, j, ahi, bhi) ==
  IF i < ahi /\ j < bhi /\ a[i] = b[j]
  THEN 1 + RunLen(a, b, i + 1, j + 1, ahi, bhi)
  ELSE 0

\* find_longest_match: the longest block; of those the one starting
\* earliest in a, and of those the one starting earliest in b
FindLongestMatch(a, b, alo, ahi, blo, bhi) ==
  LET I == alo..(ahi - 1)
      J == blo..(bhi - 1)
      len == [p \in I \X J |-> RunLen(a, b, p[1], p[2], ahi, bhi)]
      k == IF I \X J = {} THEN 0
           ELSE CHOOSE n \in {len[p] : p \in I \X J} :
                  \A p \in I \X J : len[p] <= n
  IN IF k = 0 THEN [i |-> alo, j |-> blo, size |-> 0]
     ELSE LET besti == CHOOSE i \in I :
                         /\ \E j \in J : len[<<i, j>>] = k
                         /\ \A i2 \in I : (\E j \in J : len[<<i2, j>>] = k) => i <= i2
              bestj == CHOOSE j \in J :
                         /\ len[<<besti, j>>] = k
                         /\ \A j2 \in J : len[<<besti, j2>>] = k => j <= j2
          IN [i |-> besti, j |-> bestj, size |-> k]

\* get_matching_blocks: total size of the blocks found by taking the
\* longest match and recursing to its left and to its right
RECURSIVE MatchedChars(_, _, _, _, _, _)
MatchedChars(a, b, alo, ahi, blo, bhi) ==
  IF alo >= ahi \/ blo >= bhi THEN 0
  ELSE LET m == FindLongestMatch(a, b, alo, ahi, blo, bhi)
       IN IF m.size = 0 THEN 0
          ELSE m.size
               + MatchedChars(a, b, alo, m.i, blo, m.j)
               + MatchedChars(a, b, m.i + m.size, ahi, m.j + m.size, bhi)

\* the ratio of two empty strings taken as 0.0
RatioEmptyZero(a, b) ==
  LET length == Len(a) + Len(b)
  IN IF length = 0 THEN Rat(0, 1)
     ELSE Rat(2 * MatchedChars(a, b, 1, Len(a) + 1, 1, Len(b) + 1), length)

\* the ratio taken over the longer string in place of both
RatioOverLonger(a, b) ==
  LET length == Max(Len(a), Len(b))
  IN IF length = 0 THEN Rat(1, 1)
     ELSE Rat(2 * MatchedChars(a, b, 1, Len(a) + 1, 1, Len(b) + 1), length)

\* the ratio without its factor 2
RatioHalf(a, b) ==
  LET length == Len(a) + Len(b)
  IN IF length = 0 THEN Rat(1, 1)
     ELSE Rat(MatchedChars(a, b, 1, Len(a) + 1, 1, Len(b) + 1), length)

\* ratio(): 2.0 * matches / length, 1.0 when both are empty
Ratio(a, b) ==
  LET length == Len(a) + Len(b)
  IN IF length = 0 THEN Rat(1, 1)
     ELSE Rat(2 * MatchedChars(a, b, 1, Len(a) + 1, 1, Len(b) + 1), length)

\* the "in" operator on strings: sub is a contiguous substring of s
Contains(sub, s) ==
  \E k \in 0..(Len(s) - Len(sub)) : SubSeq(s, k + 1, k + Len(sub)) = sub


(***************************************************************************)
(* FuzzySearch.search, one mapping entry at a time                         *)
(***************************************************************************)
Candidate(code, name, similarity) ==
  [code |-> code, name |-> name, similarity |-> similarity]

\* the substring test made before the threshold test
EmitSubstringFirst(term, entry, th, pms) ==
  LET name_lower == Lower(entry.name)
      similarity == Ratio(term, name_lower)
  IN IF Contains(term, name_lower)
     THEN <<Candidate(entry.code, entry.name, pms)>>
     ELSE IF RatGeq(similarity, th)
          THEN <<Candidate(entry.code, entry.name, similarity)>>
          ELSE <<>>

\* the body of the loop over mapping.items(): what the entry appends
Emit(term, entry, th, pms) ==
  LET name_lower == Lower(entry.name)
      similarity == Ratio(term, name_lower)
  IN IF RatGeq(similarity, th)
     THEN <<Candidate(entry.code, entry.name, similarity)>>
     ELSE IF Contains(term, name_lower)
          THEN <<Candidate(entry.code, entry.name, pms)>>
          ELSE <<>>

\* a descending sort that puts x before the elements of equal key
RECURSIVE InsertDescUnstable(_, _)
InsertDescUnstable(s, x) ==
  IF Len(s) = 0 THEN <<x>>
  ELSE IF RatGt(s[1].similarity, x.similarity)
       THEN <<s[1]>> \o InsertDescUnstable(Tail(s), x)
       ELSE <<x>> \o s

\* sorted(..., key=lambda x: x[2], reverse=True): x goes behind every
\* element whose key is not smaller, so equal keys keep their order
RECURSIVE InsertDesc(_, _)
InsertDesc(s, x) ==
  IF Len(s) = 0 THEN <<x>>
  ELSE IF RatGeq(s[1].similarity, x.similarity)
       THEN <<s[1]>> \o InsertDesc(Tail(s), x)
       ELSE <<x>> \o s

\* the list left in the order of the mapping
Unsorted(s) == s

RECURSIVE SortedDesc(_)
SortedDesc(s) ==
  IF Len(s) = 0 THEN <<>>
  ELSE InsertDesc(SortedDesc(SubSeq(s, 1, Len(s) - 1)), s[Len(s)])

\* the slice [:n]
Truncate(s, n) ==
  IF n >= 0 THEN SubSeq(s, 1, Min(n, Len(s)))
  ELSE SubSeq(s, 1, Max(0, Len(s) + n))

(***************************************************************************)
(* Inputs                                                                  *)
(***************************************************************************)
Turkey == <<"T", "u", "r", "k", "e", "y">>

Turkmenistan == <<"T", "u", "r", "k", "m", "e", "n", "i", "s", "t", "a", "n">>

Australia == <<"A", "u", "s", "t", "r", "a", "l", "i", "a">>

Austria == <<"A", "u", "s", "t", "r", "i", "a">>

AnimalsLiveFish ==
  <<"a", "n", "i", "m", "a", "l", "s", " ", "l", "i", "v", "e", " ",
    "f", "i", "s", "h">>

RussianFederation ==
  <<"R", "u", "s", "s", "i", "a", "n", " ", "F", "e", "d", "e", "r", "a",
    "t", "i", "o", "n">>

NuclearReactors ==
  <<"N", "u", "c", "l", "e", "a", "r", " ", "r", "e", "a", "c", "t", "o",
    "r", "s">>

Entry(code, name) == [code |-> code, name |-> name]

\* a mapping is the sequence of its items in iteration order, keys distinct
DefaultCountryCodes == <<Entry(792, Turkey), Entry(643, RussianFederation)>>

DefaultHsCodes == <<Entry(8401, NuclearReactors)>>

SampleMappings ==
  { DefaultCountryCodes,
    DefaultHsCodes,
    <<Entry(10, Turkey), Entry(11, Turkmenistan)>>,
    <<Entry(1, Turkey)>>,
    <<Entry(36, Australia), Entry(40, Austria)>>,
    <<Entry(1, AnimalsLiveFish)>> }

\* short names: equal up to case, equal scores, substring below the
\* thresholds, nothing in common
NamePool ==
  { <<"A", "b">>, <<"a", "b">>, <<"b", "a">>, <<"a", "a", "b">>,
    <<"b", "b", "b", "a">>, <<"b", "b">> }

\* keys that follow neither the iteration order nor its reverse:
\* <<1>>, <<2, 1>>, <<2, 3, 1>>, ...
Codes(n) == [i \in 1..n |-> (i % n) + 1]

SmallMappings ==
  UNION { { [i \in 1..n |-> Entry(Codes(n)[i], names[i])] :
              names \in [1..n -> NamePool] } :
          n \in 1..MaxEntries }

Mappings == SampleMappings \cup SmallMappings

QueryChars == {"a", "B", "1", "SUP2"}

SampleQueries ==
  { <<"t", "u", "r", "k", "e", "y">>,
    <<"x", "y", "z", "x", "y", "z">>,
    <<"a", "u", "s", "t", "r", "a">>,
    <<"a", "n", "i", "m", "a", "l", "s", " ", "l", "i", "v", "e">>,
    <<"7", "9", "2">>,
    <<"0", "1">>,
    <<"1", "SUP2">>,
    <<"A", "B">>,
    <<"b", "a">> }

Queries ==
  SampleQueries \cup UNION { [1..n -> QueryChars] : n \in 0..MaxQueryLen }

ItemTypes == {"country", "product"}

CountryThreshold == Rat(6, 10)

OtherThreshold == Rat(5, 10)

SearchThreshold == Rat(3, 10)

DefaultPartialMatchScore == Rat(9, 10)

DefaultMaxResults == 5

Thresholds == {CountryThreshold, OtherThreshold, SearchThreshold}

\* the thresholds of the two item types exchanged
ThresholdSwapped(kind) ==
  IF kind = "country" THEN OtherThreshold ELSE CountryThreshold

\* threshold=0.6 if item_type == 'country' else 0.5
ThresholdFor(kind) ==
  IF kind = "country" THEN CountryThreshold ELSE OtherThreshold

\* partial_match_score as a caller may pass it: the default, and a value
\* that is no score
PartialMatchScores == {DefaultPartialMatchScore, Rat(3, 2)}

MaxResultsValues == (1..MaxResults) \cup {DefaultMaxResults}

(***************************************************************************)
(* State                                                                   *)
(***************************************************************************)
VARIABLES
  mapping,              \* the code -> name dictionary, in iteration order
  pc,                   \* where the call in progress stands
  op,                   \* the entry point called: "_get_code" or "search"
  search_term,          \* the argument of the entry point
  item_type,            \* _get_code's item_type
  term,                 \* search's search_term after lower()
  threshold,            \* search's parameters
  partial_match_score,
  max_results,
  idx,                  \* search's position in mapping.items()
  matches,              \* search's list matches
  result,               \* what search returned: None or Some(list)
  fbm,                  \* what find_best_match returned: None or Some(triple)
  ret,                  \* what _get_code returned: None or Some(code)
  raised,               \* the exception that left the call, or None
  printed,              \* the lines _get_code printed
  calls,                \* the functions entered below the entry point
  scored                \* a scoring made on its own: None or Some

vars ==
  <<mapping, pc, op, search_term, item_type, term, threshold,
    partial_match_score, max_results, idx, matches, result, fbm, ret,
    raised, printed, calls, scored>>

Init ==
  /\ mapping \in Mappings
  /\ pc = "idle"
  /\ op = None
  /\ search_term = <<>>
  /\ item_type = None
  /\ term = <<>>
  /\ threshold = CountryThreshold
  /\ partial_match_score = DefaultPartialMatchScore
  /\ max_results = DefaultMaxResults
  /\ idx = 1
  /\ matches = <<>>
  /\ result = None
  /\ fbm = None
  /\ ret = None
  /\ raised = None
  /\ printed = <<>>
  /\ calls = {}
  /\ scored = None

(***************************************************************************)
(* TradeDataExtractor._get_code                                            *)
(***************************************************************************)
\* lines 52-53: a query of digit characters is returned as int(query);
\* int() raises ValueError on a digit character that is no decimal digit
GetCodeNumeric(q, kind) ==
  /\ pc = "idle"
  /\ IsDigit(q)
  /\ op' = "_get_code"
  /\ search_term' = q
  /\ item_type' = kind
  /\ IF IntParses(q)
     THEN ret' = Some(IntValue(q)) /\ raised' = None
     ELSE ret' = None /\ raised' = Some("ValueError")
  /\ pc' = "done"
  /\ UNCHANGED <<scored, mapping, term, threshold, partial_match_score, max_results,
                 idx, matches, result, fbm, printed, calls>>

\* lines 56-58: any other query goes to find_best_match
GetCodeLookup(q, kind) ==
  /\ pc = "idle"
  /\ ~IsDigit(q)
  /\ op' = "_get_code"
  /\ search_term' = q
  /\ item_type' = kind
  /\ calls' = calls \cup {"find_best_match"}
  /\ pc' = "find_best_match"
  /\ UNCHANGED <<scored, mapping, term, threshold, partial_match_score, max_results,
                 idx, matches, result, fbm, ret, raised, printed>>

(***************************************************************************)
(* FuzzySearch.find_best_match                                             *)
(***************************************************************************)
\* positions of the entries whose lower-cased name is the lower-cased query
ExactHits(q, m) == {i \in 1..Len(m) : Lower(m[i].name) = Lower(q)}

\* the scan going on after a hit, so that the last hit is kept
LastExact(q, m) ==
  CHOOSE h \in ExactHits(q, m) : \A h2 \in ExactHits(q, m) : h >= h2

\* the scan returns at its first hit
FirstExact(q, m) ==
  CHOOSE h \in ExactHits(q, m) : \A h2 \in ExactHits(q, m) : h <= h2

\* lines 63-70: the first entry of the scan that is equal returns
FindBestMatchExact ==
  /\ pc = "find_best_match"
  /\ ExactHits(search_term, mapping) # {}
  /\ LET i == FirstExact(search_term, mapping)
     IN fbm' = Some([code |-> Some(mapping[i].code),
                     name |-> Some(mapping[i].name),
                     matches |-> <<>>])
  /\ pc' = "_get_code"
  /\ UNCHANGED <<scored, mapping, op, search_term, item_type, term, threshold,
                 partial_match_score, max_results, idx, matches, result, ret,
                 raised, printed, calls>>

\* lines 72-77: no entry is equal, search is called with the threshold of
\* the item type and its other parameters at their defaults
FindBestMatchFuzzy ==
  /\ pc = "find_best_match"
  /\ ExactHits(search_term, mapping) = {}
  /\ term' = Lower(Lower(search_term))
  /\ threshold' = ThresholdFor(item_type)
  /\ partial_match_score' = DefaultPartialMatchScore
  /\ max_results' = DefaultMaxResults
  /\ idx' = 1
  /\ matches' = <<>>
  /\ calls' = calls \cup {"search"}
  /\ pc' = "search"
  /\ UNCHANGED <<scored, mapping, op, search_term, item_type, result, fbm, ret,
                 raised, printed>>

(***************************************************************************)
(* FuzzySearch.search                                                      *)
(***************************************************************************)
\* lines 10-16, 30-31: search called on its own, as the --search-country
\* and --search-product options do
SearchCall(q, th, mr) ==
  /\ pc = "idle"
  /\ op' = "search"
  /\ search_term' = q
  /\ term' = Lower(q)
  /\ threshold' = th
  /\ partial_match_score' = DefaultPartialMatchScore
  /\ max_results' = mr
  /\ idx' = 1
  /\ matches' = <<>>
  /\ pc' = "search"
  /\ UNCHANGED <<scored, mapping, item_type, result, fbm, ret, raised, printed,
                 calls>>

\* lines 33-40: one turn of the loop
SearchStep ==
  /\ pc = "search"
  /\ idx <= Len(mapping)
  /\ matches' = matches \o Emit(term, mapping[idx], threshold,
                                partial_match_score)
  /\ idx' = idx + 1
  /\ UNCHANGED <<scored, mapping, pc, op, search_term, item_type, term, threshold,
                 partial_match_score, max_results, result, fbm, ret, raised,
                 printed, calls>>

\* line 42, and lines 73-79 of find_best_match when it is the caller
SearchReturn ==
  /\ pc = "search"
  /\ idx > Len(mapping)
  /\ LET found == Truncate(SortedDesc(matches), max_results)
     IN /\ result' = Some(found)
        /\ IF op = "_get_code"
           THEN /\ fbm' = Some([code |-> None, name |-> None,
                                matches |-> found])
                /\ pc' = "_get_code"
           ELSE /\ fbm' = fbm
                /\ pc' = "done"
  /\ UNCHANGED <<scored, mapping, op, search_term, item_type, term, threshold,
                 partial_match_score, max_results, idx, matches, ret, raised,
                 printed, calls>>

(***************************************************************************)
(* TradeDataExtractor._get_code, after find_best_match                     *)
(***************************************************************************)
\* lines 60-61
GetCodeFound ==
  /\ pc = "_get_code"
  /\ fbm[1].code # None
  /\ ret' = fbm[1].code
  /\ pc' = "done"
  /\ UNCHANGED <<scored, mapping, op, search_term, item_type, term, threshold,
                 partial_match_score, max_results, idx, matches, result, fbm,
                 raised, printed, calls>>

\* the counter of the printing loop returned in place of a code
AutoSelectCounter(ms) == Len(ms)

\* the code left in match_code by the printing loop: the last candidate's
AutoSelectLast(ms) == ms[Len(ms)].code

\* lines 69-72: match_code, match_name, _ = matches[0]
AutoSelect(ms) == ms[1].code

\* lines 64-72: the candidates are printed and the first one is used
GetCodeAutoSelect ==
  /\ pc = "_get_code"
  /\ fbm[1].code = None
  /\ fbm[1].matches # <<>>
  /\ LET ms == fbm[1].matches
     IN /\ printed' = <<"not found exactly">>
                      \o [i \in 1..Len(ms) |-> <<i, ms[i].code, ms[i].name,
                                                 ms[i].similarity>>]
                      \o <<<<"Using", ms[1].name, ms[1].code>>>>
        /\ ret' = Some(AutoSelect(ms))
  /\ pc' = "done"
  /\ UNCHANGED <<scored, mapping, op, search_term, item_type, term, threshold,
                 partial_match_score, max_results, idx, matches, result, fbm,
                 raised, calls>>

\* lines 74-76
GetCodeNotFound ==
  /\ pc = "_get_code"
  /\ fbm[1].code = None
  /\ fbm[1].matches = <<>>
  /\ printed' = <<"not found">>
  /\ ret' = None
  /\ pc' = "done"
  /\ UNCHANGED <<scored, mapping, op, search_term, item_type, term, threshold,
                 partial_match_score, max_results, idx, matches, result, fbm,
                 raised, calls>>

Next ==
  \/ \E q \in Queries, kind \in ItemTypes : GetCodeNumeric(q, kind)
  \/ \E q \in Queries, kind \in ItemTypes : GetCodeLookup(q, kind)
  \/ FindBestMatchExact
  \/ FindBestMatchFuzzy
  \/ \E q \in Queries, th \in Thresholds, mr \in MaxResultsValues :
       SearchCall(q, th, mr)
  \/ SearchStep
  \/ SearchReturn
  \/ GetCodeFound
  \/ GetCodeAutoSelect
  \/ GetCodeNotFound

Spec == Init /\ [][Next]_vars

(***************************************************************************)
(* FuzzySearch.search with all of its parameters passed by the caller      *)
(***************************************************************************)
\* lines 10-16, 30-31: search called with a partial_match_score of its own
SearchCallWith(q, th, pms, mr) ==
  /\ pc = "idle"
  /\ op' = "search"
  /\ search_term' = q
  /\ term' = Lower(q)
  /\ threshold' = th
  /\ partial_match_score' = pms
  /\ max_results' = mr
  /\ idx' = 1
  /\ matches' = <<>>
  /\ pc' = "search"
  /\ UNCHANGED <<scored, mapping, item_type, result, fbm, ret, raised,
                 printed, calls>>

NextSearch ==
  \/ \E q \in Queries, th \in Thresholds, pms \in PartialMatchScores,
        mr \in MaxResultsValues : SearchCallWith(q, th, pms, mr)
  \/ SearchStep
  \/ SearchReturn

SpecSearch == Init /\ [][NextSearch]_vars

(***************************************************************************)
(* The scorer on its own: SequenceMatcher(None, a, b).ratio()              *)
(***************************************************************************)
ScoreChars == {"a", "b", "c"}

\* the lower-cased strings that are scored
ScoreStrings == UNION { [1..n -> ScoreChars] : n \in 0..MaxScoreLen }

\* line 35: one scoring of a against b
Score(a, b) ==
  /\ pc = "idle"
  /\ op' = "ratio"
  /\ scored' = Some([a |-> a, b |-> b, ratio |-> Ratio(a, b)])
  /\ pc' = "done"
  /\ UNCHANGED <<mapping, search_term, item_type, term, threshold,
                 partial_match_score, max_results, idx, matches, result, fbm,
                 ret, raised, printed, calls>>

InitScore == Init /\ mapping = DefaultHsCodes

NextScore == \E a \in ScoreStrings, b \in ScoreStrings : Score(a, b)

SpecScore == InitScore /\ [][NextScore]_vars

(***************************************************************************)
(* Vocabulary of the properties                                            *)
(***************************************************************************)
Keys(m) == {m[i].code : i \in 1..Len(m)}

\* a non-empty string of digit characters, decimal or not
DigitCharsOnly(q) ==
  q # <<>> /\ \A i \in 1..Len(q) : q[i] \in DecimalDigits \cup OtherDigits

\* a non-empty string of the decimal digits 0..9
DecimalOnly(q) == q # <<>> /\ \A i \in 1..Len(q) : q[i] \in DecimalDigits

\* some name of the mapping is the query up to case
HasExact(q, m) == \E i \in 1..Len(m) : Lower(m[i].name) = Lower(q)

\* the entry scores at or above th against the query, or contains it
Qualifies(q, e, th) ==
  \/ RatGeq(Ratio(Lower(q), Lower(e.name)), th)
  \/ Contains(Lower(q), Lower(e.name))

KindThreshold(kind) == IF kind = "country" THEN <<3, 5>> ELSE <<1, 2>>

\* a call of _get_code has returned or raised
GetCodeDone == pc = "done" /\ op = "_get_code"

\* a call of search made on its own has returned
SearchDone == pc = "done" /\ op = "search"

(***************************************************************************)
(* C1                                                                      *)
(***************************************************************************)
\* C1, as stated: whenever _get_code returns a code that is not None, the
\* code is a key of the mapping that was passed in.
C1_ReturnedCodeIsKey ==
  (GetCodeDone /\ ret # None) => ret[1] \in Keys(mapping)

\* C1, amended: whenever _get_code returns a code that is not None for a
\* query that is not made of digit characters only, the code is a key of
\* the mapping that was passed in.
C1_LookedUpCodeIsKey ==
  (GetCodeDone /\ ~DigitCharsOnly(search_term) /\ ret # None)
    => ret[1] \in Keys(mapping)

\* a code was chosen among two fuzzy candidates
C1_Witness ==
  /\ GetCodeDone
  /\ ~DigitCharsOnly(search_term)
  /\ ret # None
  /\ fbm[1].code = None
  /\ Len(fbm[1].matches) >= 2

(***************************************************************************)
(* C2                                                                      *)
(***************************************************************************)
\* the case of C2: no digits-only query, no name equal up to case, and the
\* search made with the thresholds and defaults of the claim found something
C2_Case ==
  /\ GetCodeDone
  /\ ~DigitCharsOnly(search_term)
  /\ ~HasExact(search_term, mapping)
  /\ result # None
  /\ result[1] # <<>>

\* C2, as stated: in that case the triple that resolution returns holds
\* the code of the first candidate together with the full candidate list.
C2_TripleHoldsTopCode ==
  C2_Case => /\ fbm[1].code = Some(result[1][1].code)
             /\ fbm[1].matches = result[1]

\* C2, amended: in that case _get_code returns the code of the first
\* candidate of the search made with threshold 0.6 for 'country' and 0.5
\* otherwise, partial_match_score 0.9 and max_results 5; the full ranked
\* list is returned by find_best_match, with code and name None, and is
\* printed by _get_code, which returns the code alone.
C2_AutoSelectsTop ==
  C2_Case =>
    /\ threshold = KindThreshold(item_type)
    /\ partial_match_score = <<9, 10>>
    /\ max_results = 5
    /\ ret = Some(result[1][1].code)
    /\ fbm = Some([code |-> None, name |-> None, matches |-> result[1]])
    /\ Len(printed) = Len(result[1]) + 2
    /\ \A i \in 1..Len(result[1]) :
         printed[i + 1] = <<i, result[1][i].code, result[1][i].name,
                            result[1][i].similarity>>

\* 'austra' against Australia and Austria: Austria (40) scores higher
C2_Witness ==
  /\ C2_Case
  /\ mapping = <<Entry(36, Australia), Entry(40, Austria)>>
  /\ search_term = <<"a", "u", "s", "t", "r", "a">>
  /\ item_type = "product"
  /\ ret = Some(40)
  /\ Len(fbm[1].matches) = 2

(***************************************************************************)
(* C3                                                                      *)
(***************************************************************************)
\* C3: when the query is not digits only and some name equals it up to
\* case, find_best_match returns (code, name, []) of the first such entry
\* in iteration order, _get_code returns that code, and search is not run.
C3_ExactMatchFirst ==
  (GetCodeDone /\ ~DigitCharsOnly(search_term)
     /\ HasExact(search_term, mapping)) =>
    \E i \in 1..Len(mapping) :
      /\ Lower(mapping[i].name) = Lower(search_term)
      /\ \A j \in 1..(i - 1) : Lower(mapping[j].name) # Lower(search_term)
      /\ fbm = Some([code |-> Some(mapping[i].code),
                     name |-> Some(mapping[i].name),
                     matches |-> <<>>])
      /\ ret = Some(mapping[i].code)
      /\ "search" \notin calls
      /\ result = None
      /\ matches = <<>>

\* 'turkey' against Turkey and Turkmenistan
C3_Witness ==
  /\ GetCodeDone
  /\ mapping = <<Entry(10, Turkey), Entry(11, Turkmenistan)>>
  /\ search_term = <<"t", "u", "r", "k", "e", "y">>
  /\ fbm = Some([code |-> Some(10), name |-> Some(Turkey), matches |-> <<>>])
  /\ ret = Some(10)

C5_NoMatch ==
  (GetCodeDone /\ ~DigitCharsOnly(search_term)
     /\ ~HasExact(search_term, mapping)
     /\ \A i \in 1..Len(mapping) :
          ~Qualifies(search_term, mapping[i], KindThreshold(item_type))) =>
    /\ fbm = Some([code |-> None, name |-> None, matches |-> <<>>])
    /\ ret = None
    /\ raised = None

\* 'xyzxyz' against Turkey, as a country
C5_Witness ==
  /\ GetCodeDone
  /\ mapping = <<Entry(1, Turkey)>>
  /\ search_term = <<"x", "y", "z", "x", "y", "z">>
  /\ item_type = "country"
  /\ ret = None
  /\ printed = <<"not found">>

(***************************************************************************)
(* C6                                                                      *)
(***************************************************************************)
\* C6: for every query and mapping resolution ends by returning a value
\* and never raises.
C6_NeverRaises == raised = None

(***************************************************************************)
(* C7                                                                      *)
(***************************************************************************)
\* positions in matches of the candidates that carry the code of entry e
CandidatesOf(e) == {k \in 1..Len(matches) : matches[k].code = e.code}

\* C7: before truncation every entry the loop has passed has yielded at
\* most one candidate: (code, name, similarity) when the similarity is at
\* or above the threshold, so never partial_match_score in its place;
\* otherwise (code, name, partial_match_score) when the lower-cased query
\* is a substring of the lower-cased name; otherwise nothing.  The name is
\* the original one.
C7_OneCandidatePerEntry ==
  /\ \A k \in 1..Len(matches) :
       \E i \in 1..(idx - 1) : matches[k].code = mapping[i].code
  /\ \A i \in 1..(idx - 1) :
       LET e == mapping[i]
           similarity == Ratio(term, Lower(e.name))
           expected ==
             IF RatGeq(similarity, threshold)
             THEN {[code |-> e.code, name |-> e.name,
                    similarity |-> similarity]}
             ELSE IF Contains(term, Lower(e.name))
                  THEN {[code |-> e.code, name |-> e.name,
                         similarity |-> partial_match_score]}
                  ELSE {}
       IN /\ Cardinality(CandidatesOf(e)) <= 1
          /\ {matches[k] : k \in CandidatesOf(e)} = expected
  /\ (pc = "search" \/ result # None) => term = Lower(search_term)

\* one entry above the threshold that also contains the query and whose
\* name has an upper-case letter, one entry reported as a substring only
C7_Witness ==
  /\ SearchDone
  /\ \E k \in 1..Len(matches) :
       /\ matches[k].similarity # partial_match_score
       /\ matches[k].name # Lower(matches[k].name)
       /\ Contains(term, Lower(matches[k].name))
  /\ \E k \in 1..Len(matches) :
       /\ matches[k].similarity = partial_match_score
       /\ ~RatGeq(Ratio(term, Lower(matches[k].name)), threshold)

(***************************************************************************)
(* C8                                                                      *)
(***************************************************************************)
\* the case of C8: 'animals live' against {1: 'animals live fish'} with
\* threshold 0.5 and partial_match_score 0.9
C8_Case ==
  /\ pc = "done"
  /\ result # None
  /\ mapping = <<Entry(1, AnimalsLiveFish)>>
  /\ term = <<"a", "n", "i", "m", "a", "l", "s", " ", "l", "i", "v", "e">>
  /\ threshold = <<1, 2>>
  /\ partial_match_score = <<9, 10>>

\* C8, as stated: the result of that search contains
\* (1, 'animals live fish', 0.9).
C8_ReportsPartialScore ==
  C8_Case =>
    \E k \in 1..Len(result[1]) :
      result[1][k] = [code |-> 1, name |-> AnimalsLiveFish,
                      similarity |-> <<9, 10>>]

\* C8, amended: the result of that search is the one candidate
\* (1, 'animals live fish', 24/29), the computed similarity 0.8276, which
\* is above the threshold 0.5; 0.9 is not reported.
C8_ReportsSimilarity ==
  C8_Case =>
    result[1] = <<[code |-> 1, name |-> AnimalsLiveFish,
                   similarity |-> <<24, 29>>]>>

\* that search, made on its own
C8_Witness == C8_Case /\ op = "search" /\ max_results = 5

(***************************************************************************)
(* C9                                                                      *)
(***************************************************************************)
\* position of the entry with this code in the mapping's iteration order
PositionOf(code) == CHOOSE i \in 1..Len(mapping) : mapping[i].code = code

\* C9: what search returns is in descending order of the reported scores,
\* and candidates of equal score are in the mapping's iteration order.
C9_DescendingAndStable ==
  result # None =>
    \A k \in 1..Len(result[1]), l \in 1..Len(result[1]) :
      k < l =>
        /\ RatGeq(result[1][k].similarity, result[1][l].similarity)
        /\ result[1][k].similarity = result[1][l].similarity
             => PositionOf(result[1][k].code) < PositionOf(result[1][l].code)

\* two candidates of equal score, the first with the larger key
C9_Witness ==
  /\ pc = "done"
  /\ result # None
  /\ Len(result[1]) = 2
  /\ result[1][1].similarity = result[1][2].similarity
  /\ result[1][1].similarity # partial_match_score
  /\ result[1][1].code > result[1][2].code

(***************************************************************************)
(* C10                                                                     *)
(***************************************************************************)
\* C10: search returns min(max_results, number of emitted candidates)
\* candidates, all of them emitted, and no emitted candidate left out has
\* a reported score strictly higher than a returned one.
C10_TruncatedToBest ==
  result # None =>
    /\ Len(result[1]) = Min(max_results, Len(matches))
    /\ \A k \in 1..Len(result[1]) :
         \E j \in 1..Len(matches) : matches[j] = result[1][k]
    /\ \A j \in 1..Len(matches) :
         (\A k \in 1..Len(result[1]) : result[1][k] # matches[j]) =>
           \A k \in 1..Len(result[1]) :
             ~RatGt(matches[j].similarity, result[1][k].similarity)

\* two emitted, one returned: the second of the mapping, which scores higher
C10_Witness ==
  /\ SearchDone
  /\ max_results = 1
  /\ Len(matches) = 2
  /\ RatGt(matches[2].similarity, matches[1].similarity)
  /\ result[1] = <<matches[2]>>

(***************************************************************************)
(* C11                                                                     *)
(***************************************************************************)
\* the float n/d lies in the closed interval [0, 1]
InUnitInterval(x) == 0 <= x[1] /\ x[1] <= x[2]

\* C11, as stated: for every query, mapping, threshold, partial_match_score
\* and max_results, every candidate search returns has a reported
\* similarity in [0, 1].
C11_ScoresInUnitInterval ==
  result # None =>
    \A k \in 1..Len(result[1]) : InUnitInterval(result[1][k].similarity)

\* C11, amended: for every query, mapping, threshold and max_results, and
\* every partial_match_score that itself lies in [0, 1], every candidate
\* search returns has a reported similarity in [0, 1]; a substring
\* candidate reports partial_match_score as it was passed.
C11_ScoresInUnitIntervalGivenPartial ==
  result # None =>
    \A k \in 1..Len(result[1]) :
      \/ InUnitInterval(result[1][k].similarity)
      \/ /\ ~InUnitInterval(partial_match_score)
         /\ result[1][k].similarity = partial_match_score

\* a search with the default partial_match_score that returned a candidate
\* scoring 1.0 and one scoring less
C11_Witness ==
  /\ SearchDone
  /\ partial_match_score = <<9, 10>>
  /\ Len(result[1]) = 2
  /\ result[1][1].similarity = <<1, 1>>
  /\ result[1][2].similarity # <<1, 1>>

(***************************************************************************)
(* C12                                                                     *)
(***************************************************************************)
\* the characters of a string
CharsOf(x) == {x[i] : i \in 1..Len(x)}

\* score(s, s) = 1.0, score('', '') = 1.0, and 0.0 when exactly one of the
\* two strings is empty
C12_FixedScores ==
  scored # None =>
    LET a == scored[1].a
        b == scored[1].b
    IN /\ a = b => scored[1].ratio = <<1, 1>>
       /\ (a = <<>> /\ b # <<>>) => scored[1].ratio = <<0, 1>>
       /\ (a # <<>> /\ b = <<>>) => scored[1].ratio = <<0, 1>>

=============================================================================
